---- MODULE Spec2Model ----
(***************************************************************************)
(* College notice monitor: fetch two notice listings, merge and            *)
(* de-duplicate, filter by age and by the Known-Sent collection, send one  *)
(* digest email, record what was sent.                                     *)
(*                                                                         *)
(* Time is in milliseconds since an arbitrary origin.  A title is the      *)
(* sequence of its characters, so that the regular expressions of the      *)
(* content filter are evaluated character by character.  A raw notice id   *)
(* is a JSON value: a number [num |-> 1] or a string [str |-> "1"].        *)
(***************************************************************************)
EXTENDS Integers, Sequences, FiniteSets, TLC

\* ------------------------------------------------------------------------
\* Bounds of the model
\* ------------------------------------------------------------------------
MaxList == 1        \* longest list one endpoint returns (pipeline)
MaxTicks == 1       \* hours the clock advances over a behaviour
MaxFetch == 2       \* longest endpoint list of the merge specification
MaxBatch == 3       \* longest batch of the filter and digest specifications

\* ------------------------------------------------------------------------
\* Characters and regular expressions (all patterns carry the /i flag)
\* ------------------------------------------------------------------------
Uppers ==
    <<"A","B","C","D","E","F","G","H","I","J","K","L","M",
      "N","O","P","Q","R","S","T","U","V","W","X","Y","Z">>

Lowers ==
    <<"a","b","c","d","e","f","g","h","i","j","k","l","m",
      "n","o","p","q","r","s","t","u","v","w","x","y","z">>

Digits == {"0","1","2","3","4","5","6","7","8","9"}

Range(f) == {f[i] : i \in DOMAIN f}

\* canonical case of a character under /i
Lower(c) ==
    IF c \in Range(Uppers)
    THEN Lowers[CHOOSE i \in DOMAIN Uppers : Uppers[i] = c]
    ELSE c

\* \w
IsWordChar(c) == Lower(c) \in Range(Lowers) \/ c \in Digits \/ c = "_"

\* \s
IsSpace(c) == c \in {" ", "\t", "\n", "\r"}

\* A matcher state is the set of positions (1 .. Len(s)+1) at which the next
\* character would be read.  Each combinator maps the positions before a
\* piece of a pattern to the positions after it.

\* a literal word w (given in lower case)
Lit(s, w, P) ==
    {p + Len(w) : p \in {q \in P : /\ q + Len(w) - 1 <= Len(s)
                                    /\ \A k \in 1..Len(w) : Lower(s[q + k - 1]) = w[k]}}

\* .*  and  .*?   ('.' matches anything but a line terminator)
DotStar(s, P) ==
    {q \in 1..(Len(s) + 1) :
        \E p \in P : p <= q /\ \A k \in p..(q - 1) : s[k] \notin {"\n", "\r"}}

\* \s*
SpaceStar(s, P) ==
    {q \in 1..(Len(s) + 1) : \E p \in P : p <= q /\ \A k \in p..(q - 1) : IsSpace(s[k])}

\* \b
WordBoundary(s, P) ==
    {p \in P : LET before == p > 1 /\ IsWordChar(s[p - 1])
                   after == p <= Len(s) /\ IsWordChar(s[p])
               IN before # after}

\* every position a search may start at (patterns are not anchored)
Anywhere(s) == 1..(Len(s) + 1)

\* (6th|VI\b|Sixth)
SixthSem(s, P) ==
    Lit(s, <<"6","t","h">>, P)
        \cup WordBoundary(s, Lit(s, <<"v","i">>, P))
        \cup Lit(s, <<"s","i","x","t","h">>, P)

Exam(s, P) == Lit(s, <<"e","x","a","m">>, P)

Form(s, P) == Lit(s, <<"f","o","r","m">>, P)

Sem(s, P) == Lit(s, <<"s","e","m">>, P)

\* /BTU.*Exam.*Form.*VI\s*Sem/i
CriticalPattern1(s) ==
    Sem(s, SpaceStar(s, Lit(s, <<"v","i">>,
        DotStar(s, Form(s, DotStar(s, Exam(s, DotStar(s,
            Lit(s, <<"b","t","u">>, Anywhere(s)))))))))) # {}

\* /B\.?Tech.*(6th|VI\b|Sixth)\s*Sem/i
CriticalPattern2(s) ==
    LET b == Lit(s, <<"b">>, Anywhere(s))
        dot == b \cup Lit(s, <<".">>, b)
    IN Sem(s, SpaceStar(s, SixthSem(s, DotStar(s,
           Lit(s, <<"t","e","c","h">>, dot))))) # {}

\* /Even\s*Sem.*Exam/i
CriticalPattern3(s) ==
    Exam(s, DotStar(s, Sem(s, SpaceStar(s,
        Lit(s, <<"e","v","e","n">>, Anywhere(s)))))) # {}

\* /(Exam|Form|Fee).*?(6th|VI\b|Sixth)/i
CriticalPattern4(s) ==
    LET head == Exam(s, Anywhere(s)) \cup Form(s, Anywhere(s))
                    \cup Lit(s, <<"f","e","e">>, Anywhere(s))
    IN SixthSem(s, DotStar(s, head)) # {}

CRITICAL_PATTERNS(s) ==
    CriticalPattern1(s) \/ CriticalPattern2(s) \/ CriticalPattern3(s) \/ CriticalPattern4(s)

\* /Exam.*Form/i
GENERIC_EXAM_FORM(s) == Form(s, DotStar(s, Exam(s, Anywhere(s)))) # {}

\* /(1st|3rd|5th|7th|I\s*Sem|III\s*Sem|V\s*Sem|VII\s*Sem)/i
EXCLUDE_SEMESTERS(s) ==
    LET a == Anywhere(s)
    IN (Lit(s, <<"1","s","t">>, a) \cup Lit(s, <<"3","r","d">>, a)
          \cup Lit(s, <<"5","t","h">>, a) \cup Lit(s, <<"7","t","h">>, a)
          \cup Sem(s, SpaceStar(s, Lit(s, <<"i">>, a)))
          \cup Sem(s, SpaceStar(s, Lit(s, <<"i","i","i">>, a)))
          \cup Sem(s, SpaceStar(s, Lit(s, <<"v">>, a)))
          \cup Sem(s, SpaceStar(s, Lit(s, <<"v","i","i">>, a)))) # {}

\* ContentFilterStrategy.check on a title
ContentCheckTitle(title) ==
    LET explicitMatch == CRITICAL_PATTERNS(title)
        isGenericUrgent == GENERIC_EXAM_FORM(title) /\ ~EXCLUDE_SEMESTERS(title)
    IN IF explicitMatch \/ isGenericUrgent THEN TRUE ELSE FALSE

\* ------------------------------------------------------------------------
\* Titles
\* ------------------------------------------------------------------------
TitleVISem ==
    <<"U","r","g","e","n","t",":"," ","E","x","a","m"," ","F","o","r","m"," ","f","o","r"," ","B",".","T","e","c","h"," ","V","I"," ","S","e","m"," ","(","M","a","i","n",")"," ","2","0","2","5">>

TitleHoli ==
    <<"H","o","l","i","d","a","y"," ","N","o","t","i","c","e",":"," ","H","o","l","i"," ","F","e","s","t","i","v","a","l">>

TitleISem ==
    <<"E","x","a","m"," ","F","o","r","m"," ","f","o","r"," ","B",".","T","e","c","h"," ","I"," ","S","e","m"," ","(","B","a","c","k",")">>

TitleGeneric ==
    <<"E","x","a","m"," ","F","o","r","m"," ","N","o","t","i","c","e">>

TitleEvenSem ==
    <<"e","v","e","n"," ","s","e","m"," ","e","x","a","m"," ","d","a","t","e","s">>

TitleVIISem ==
    <<"F","e","e"," ","N","o","t","i","c","e"," ","V","I","I"," ","S","e","m">>

TitleBTU ==
    <<"B","T","U"," ","E","x","a","m"," ","F","o","r","m"," ","V","I","S","e","m">>

TitleEmpty ==
    <<>>

Titles ==
    {TitleVISem, TitleHoli, TitleISem, TitleGeneric, TitleEvenSem, TitleVIISem,
     TitleBTU, TitleEmpty}

\* ------------------------------------------------------------------------
\* Notices
\* ------------------------------------------------------------------------
HourMs == 60 * 60 * 1000

\* NOTICE_AGE_LIMIT_HOURS (its default)
NOTICE_AGE_LIMIT_HOURS == 24

\* the clock at the first execution
Now0 == 48 * HourMs

DateFresh == Now0

DateBoundary == Now0 - NOTICE_AGE_LIMIT_HOURS * HourMs

DateOld == Now0 - 40 * HourMs

Notice(id, title, date, content) ==
    [id |-> id, title |-> title, date |-> date, content |-> content]

NoticeA == Notice([num |-> 1], TitleVISem, DateBoundary, "download/form_vi_sem.pdf")

NoticeB == Notice([str |-> "1"], TitleHoli, DateFresh, "download/holi.pdf")

NoticeC == Notice([num |-> 1], TitleISem, DateFresh, "download/back_i_sem.pdf")

NoticeD == Notice([str |-> "2"], TitleEmpty, DateFresh, "download/untitled.pdf")

NoticeE == Notice([num |-> 3], TitleGeneric, DateOld, "download/old.pdf")

Pool == {NoticeA, NoticeB, NoticeC, NoticeD, NoticeE}

\* the notices the endpoints of the pipeline serve
RunPool == {NoticeA, NoticeB, NoticeD, NoticeE}

\* sequences over S of length at most n
SeqUpTo(S, n) == UNION {[1..k -> S] : k \in 0..n}

\* String(id)
String(id) == IF "num" \in DOMAIN id THEN ToString(id.num) ELSE id.str

\* ------------------------------------------------------------------------
\* NoticeMonitor.fetchNotices: merge and de-duplicate
\* ------------------------------------------------------------------------
\* a response body: its data array may be missing
Body(has, data) == [has |-> has, data |-> data]

\* response.data.data || []
DataOrEmpty(body) == IF body.has THEN body.data ELSE <<>>

\* Map.prototype.set on the entries in insertion order: an existing key keeps
\* its place and takes the new value; keys are compared as raw values
MapSet(entries, item) ==
    IF \E i \in DOMAIN entries : entries[i].id = item.id
    THEN [i \in DOMAIN entries |->
             IF entries[i].id = item.id THEN item ELSE entries[i]]
    ELSE Append(entries, item)

RECURSIVE MapOf(_, _)
\* new Map(allNotices.map(item => [item.id, item])), from the entries so far
MapOf(entries, items) ==
    IF items = <<>> THEN entries
    ELSE MapOf(MapSet(entries, Head(items)), Tail(items))

fetchNotices(newsBody, examBody) ==
    LET allNotices == DataOrEmpty(newsBody) \o DataOrEmpty(examBody)
    IN MapOf(<<>>, allNotices)

RECURSIVE InsertByDate(_, _)
\* insert into a list sorted by date, after the elements that do not come later
InsertByDate(sorted, item) ==
    IF sorted = <<>> THEN <<item>>
    ELSE IF Head(sorted).date <= item.date
         THEN <<Head(sorted)>> \o InsertByDate(Tail(sorted), item)
         ELSE <<item>> \o sorted

RECURSIVE SortByDate(_)
\* uniqueNotices.sort((a, b) => new Date(a.date) - new Date(b.date)), stable
SortByDate(notices) ==
    IF notices = <<>> THEN <<>>
    ELSE InsertByDate(SortByDate(SubSeq(notices, 1, Len(notices) - 1)),
                      notices[Len(notices)])

\* ------------------------------------------------------------------------
\* Filter strategies and the chain
\* ------------------------------------------------------------------------
\* TimeFilterStrategy constructor
CutoffOf(clock) == clock - NOTICE_AGE_LIMIT_HOURS * HourMs

\* a check that drops the notice dated exactly at the cutoff
TimeCheckStrict(notice, cutoff) == notice.date > cutoff

\* TimeFilterStrategy.check
TimeCheck(notice, cutoff) == notice.date >= cutoff

\* ContentFilterStrategy.check on each title of the model, evaluated once
CriticalTitle == [title \in Titles |-> ContentCheckTitle(title)]

\* ContentFilterStrategy.check
ContentCheck(notice) == CriticalTitle[notice.title]

\* MongoPersistenceStrategy.check
PersistenceCheck(notice, existing) == String(notice.id) \notin existing

StrategyNames == {"time", "persistence", "content"}

\* strategy.check(notice)
StrategyCheck(strategy, notice, cutoff, existing) ==
    CASE strategy = "time" -> TimeCheck(notice, cutoff)
      [] strategy = "persistence" -> PersistenceCheck(notice, existing)
      [] strategy = "content" -> ContentCheck(notice)

RECURSIVE KeepNotice(_, _, _, _)
\* the inner loop of applyFilters: stop at the first strategy that rejects
KeepNotice(chain, notice, cutoff, existing) ==
    IF chain = <<>> THEN TRUE
    ELSE IF ~StrategyCheck(Head(chain), notice, cutoff, existing) THEN FALSE
         ELSE KeepNotice(Tail(chain), notice, cutoff, existing)

RECURSIVE applyFilters(_, _, _, _)
applyFilters(chain, notices, cutoff, existing) ==
    IF notices = <<>> THEN <<>>
    ELSE LET rest == applyFilters(chain, Tail(notices), cutoff, existing)
         IN IF KeepNotice(chain, Head(notices), cutoff, existing)
            THEN <<Head(notices)>> \o rest
            ELSE rest

\* the chain built by the entry point
ChainOf(testMode) == IF ~testMode THEN <<"time", "persistence">> ELSE <<>>

\* ------------------------------------------------------------------------
\* NoticeMonitor.sendEmail: classification, subject and banner
\* ------------------------------------------------------------------------
\* a flag that follows the last notice of the batch only
HasCriticalLast(flag, notices) ==
    IF notices = <<>> THEN flag
    ELSE CriticalTitle[notices[Len(notices)].title]

RECURSIVE HasCritical(_, _)
\* hasCritical after the callbacks of notices.map have run, from its value so far
HasCritical(flag, notices) ==
    IF notices = <<>> THEN flag
    ELSE HasCritical(IF ContentCheck(Head(notices)) THEN TRUE ELSE flag, Tail(notices))

SubjectCritical == "CRITICAL: 6th Sem Exam Notice Detected!"

SubjectPlain == "New College Notice(s) Released"

BannerCritical == "Important Exam Notice Found"

BannerPlain == "New Notices"

\* one card per notice
Card(n) ==
    [title |-> n.title, date |-> n.date, id |-> n.id,
     href |-> <<"https://ecajmer.ac.in/", n.content>>,
     critical |-> ContentCheck(n)]

\* the message handed to resend.emails.send
EmailOf(notices, testMode) ==
    LET hasCritical == HasCritical(FALSE, notices)
    IN [subject |-> <<IF testMode THEN "[TEST] " ELSE "",
                      IF hasCritical THEN SubjectCritical ELSE SubjectPlain>>,
        banner |-> IF hasCritical THEN BannerCritical ELSE BannerPlain,
        testNote |-> testMode,
        cards |-> [i \in DOMAIN notices |-> Card(notices[i])]]

NoEmail == [subject |-> <<>>, banner |-> "", testNote |-> FALSE, cards |-> <<>>]

\* ------------------------------------------------------------------------
\* The Known-Sent collection
\* ------------------------------------------------------------------------
\* the document saveSentNotices builds for a notice, with the schema's sentAt
Operation(n, clock) ==
    [noticeId |-> String(n.id), title |-> n.title, date |-> n.date,
     url |-> n.content, sentAt |-> clock]

\* schema validation: noticeId, title and date are required strings
Valid(doc) == doc.noticeId # "" /\ doc.title # <<>>

NoticeIds(coll) == {doc.noticeId : doc \in coll}

\* a collection without the unique index
DuplicateKeyNone(coll, doc) == FALSE

\* the unique index on noticeId
DuplicateKey(coll, doc) == doc.noticeId \in NoticeIds(coll)

RECURSIVE InsertMany(_, _, _, _)
\* Notice.insertMany(operations, {ordered: false}) on collection coll, for the
\* operations from position i on; rejected is the set of positions the server
\* rejects.  A document failing validation is left out without an error; a
\* write error (a rejected or duplicate document) makes the call throw after
\* every other document has been tried, in the order of the batch.
InsertMany(coll, operations, rejected, i) ==
    IF i > Len(operations) THEN [coll |-> coll, threw |-> FALSE]
    ELSE LET doc == operations[i]
         IN IF ~Valid(doc) THEN InsertMany(coll, operations, rejected, i + 1)
            ELSE IF i \in rejected \/ DuplicateKey(coll, doc)
                 THEN [coll |-> InsertMany(coll, operations, rejected, i + 1).coll,
                       threw |-> TRUE]
                 ELSE InsertMany(coll \cup {doc}, operations, rejected, i + 1)

\* MongoPersistenceStrategy.preload: the membership set after the call
preload(notices, coll, existing) ==
    IF Len(notices) = 0 THEN existing
    ELSE LET idsToCheck == {String(notices[i].id) : i \in DOMAIN notices}
         IN {doc.noticeId : doc \in {d \in coll : d.noticeId \in idsToCheck}}

\* MongoPersistenceStrategy.saveSentNotices: the collection and the membership
\* set after the call
saveSentNotices(notices, coll, existing, rejected, clock) ==
    IF Len(notices) = 0 THEN [coll |-> coll, existing |-> existing, threw |-> FALSE]
    ELSE LET operations == [i \in DOMAIN notices |-> Operation(notices[i], clock)]
             res == InsertMany(coll, operations, rejected, 1)
         IN IF res.threw
            THEN [coll |-> res.coll, existing |-> existing, threw |-> TRUE]
            ELSE [coll |-> res.coll,
                  existing |-> existing \cup {String(notices[i].id) : i \in DOMAIN notices},
                  threw |-> FALSE]

\* ------------------------------------------------------------------------
\* State
\* ------------------------------------------------------------------------
VARIABLES
    store,            \* the Known-Sent collection: a set of documents
    now,              \* the clock
    ticks,            \* hours elapsed since the first execution
    news,             \* body served by the news endpoint
    exam,             \* body served by the exam endpoint
    pc,               \* where the running execution of run() stands
    TEST_MODE,        \* Config.TEST_MODE of the execution
    SEED_MODE,        \* Config.SEED_MODE of the execution
    strategies,       \* NoticeMonitor.strategies
    cutoffDate,       \* TimeFilterStrategy.cutoffDate
    existingIds,      \* MongoPersistenceStrategy.existingIds
    uniqueNotices,    \* run(): uniqueNotices
    noticesToSeed,    \* run(): noticesToSeed
    relevantNotices,  \* run(): relevantNotices
    email,            \* the message delivered by this execution, or NoEmail
    exitCode,         \* -1 while running, then the exit status of the process
    cleanedUp,        \* persistence.cleanup() has been executed
    saveCalled,       \* saveSentNotices has been called in this execution
    filtersApplied,   \* applyFilters has been called in this execution
    sendFailed,       \* sendEmail threw in this execution
    saveThrew,        \* insertMany threw inside saveSentNotices
    storeAtStart,     \* the collection when the execution started
    prev              \* summary of the previous execution

vars ==
    <<store, now, ticks, news, exam, pc, TEST_MODE, SEED_MODE, strategies,
      cutoffDate, existingIds, uniqueNotices, noticesToSeed, relevantNotices, email,
      exitCode, cleanedUp, saveCalled, filtersApplied, sendFailed, saveThrew,
      storeAtStart, prev>>

envVars == <<now, ticks, news, exam>>

runVars ==
    <<TEST_MODE, SEED_MODE, strategies, cutoffDate, storeAtStart, prev>>

NoPrev == [normalOk |-> FALSE, failedBatch |-> <<>>]

\* the bodies an endpoint may serve
Bodies(S, n) == {Body(TRUE, d) : d \in SeqUpTo(S, n)} \cup {Body(FALSE, <<>>)}

\* nothing has been sent, saved or failed yet
Fresh ==
    /\ ticks = 0
    /\ SEED_MODE = FALSE
    /\ noticesToSeed = <<>>
    /\ email = NoEmail
    /\ exitCode = -1
    /\ cleanedUp = FALSE
    /\ saveCalled = FALSE
    /\ filtersApplied = FALSE
    /\ sendFailed = FALSE
    /\ saveThrew = FALSE
    /\ prev = NoPrev

\* the first deployment: an empty collection, no process running
Init ==
    /\ Fresh
    /\ store = {}
    /\ storeAtStart = {}
    /\ now = Now0
    /\ pc = "idle"
    /\ TEST_MODE = FALSE
    /\ strategies = <<>>
    /\ cutoffDate = 0
    /\ existingIds = {}
    /\ uniqueNotices = <<>>
    /\ relevantNotices = <<>>
    /\ news \in Bodies(RunPool, MaxList)
    /\ exam \in Bodies(RunPool, MaxList)

\* ------------------------------------------------------------------------
\* The pipeline: one action per await of NoticeMonitor.run
\* ------------------------------------------------------------------------
\* the entry point, elapsed hours after the previous execution ended: read the
\* configuration, build the chain and the monitor, call run() up to its first
\* await
Start(testMode, seedMode, elapsed) ==
    /\ pc \in {"idle", "exited"}
    /\ ticks + elapsed <= MaxTicks
    /\ ticks' = ticks + elapsed
    /\ now' = now + elapsed * HourMs
    /\ prev' = [normalOk |-> ~TEST_MODE /\ ~SEED_MODE /\ exitCode = 0,
                failedBatch |-> IF sendFailed /\ ~TEST_MODE THEN relevantNotices
                                ELSE <<>>]
    /\ TEST_MODE' = testMode
    /\ SEED_MODE' = seedMode
    /\ strategies' = ChainOf(testMode)
    /\ cutoffDate' = IF ~testMode THEN CutoffOf(now') ELSE 0
    /\ existingIds' = {}
    /\ uniqueNotices' = <<>>
    /\ noticesToSeed' = <<>>
    /\ relevantNotices' = <<>>
    /\ email' = NoEmail
    /\ exitCode' = -1
    /\ cleanedUp' = FALSE
    /\ saveCalled' = FALSE
    /\ filtersApplied' = FALSE
    /\ sendFailed' = FALSE
    /\ saveThrew' = FALSE
    /\ storeAtStart' = store
    /\ pc' = "init"
    /\ UNCHANGED <<store, news, exam>>

\* the catch block: log and process.exit(1); the process ends there
Catch ==
    /\ pc' = "exited"
    /\ exitCode' = 1

\* persistence.init() resolves
InitOk ==
    /\ pc = "init"
    /\ pc' = "fetch"
    /\ UNCHANGED <<store, envVars, runVars, existingIds, uniqueNotices, noticesToSeed,
                   relevantNotices, email, exitCode, cleanedUp, saveCalled,
                   filtersApplied, sendFailed, saveThrew>>

\* connectDB throws
InitFail ==
    /\ pc = "init"
    /\ Catch
    /\ UNCHANGED <<store, envVars, runVars, existingIds, uniqueNotices, noticesToSeed,
                   relevantNotices, email, cleanedUp, saveCalled, filtersApplied,
                   sendFailed, saveThrew>>

\* both requests resolve: merge, de-duplicate, sort, and call preload
FetchOk ==
    /\ pc = "fetch"
    /\ uniqueNotices' = SortByDate(fetchNotices(news, exam))
    /\ pc' = "preload"
    /\ UNCHANGED <<store, envVars, runVars, existingIds, noticesToSeed,
                   relevantNotices, email, exitCode, cleanedUp, saveCalled,
                   filtersApplied, sendFailed, saveThrew>>

\* a request fails
FetchFail ==
    /\ pc = "fetch"
    /\ Catch
    /\ UNCHANGED <<store, envVars, runVars, existingIds, uniqueNotices, noticesToSeed,
                   relevantNotices, email, cleanedUp, saveCalled, filtersApplied,
                   sendFailed, saveThrew>>

\* preload resolves; then the seed branch up to saveSentNotices, or applyFilters
\* up to sendEmail
PreloadOk ==
    /\ pc = "preload"
    /\ LET existing == preload(uniqueNotices, store, existingIds)
           KeepNew(n) == String(n.id) \notin existing
           toSeed == SelectSeq(uniqueNotices, KeepNew)
           relevant == applyFilters(strategies, uniqueNotices, cutoffDate, existing)
       IN /\ existingIds' = existing
          /\ IF SEED_MODE
             THEN /\ noticesToSeed' = toSeed
                  /\ pc' = IF Len(toSeed) > 0 THEN "save" ELSE "cleanup"
                  /\ UNCHANGED <<relevantNotices, filtersApplied>>
             ELSE /\ relevantNotices' = relevant
                  /\ filtersApplied' = TRUE
                  /\ pc' = IF Len(relevant) > 0 THEN "send" ELSE "cleanup"
                  /\ UNCHANGED noticesToSeed
    /\ UNCHANGED <<store, envVars, runVars, uniqueNotices, email, exitCode, cleanedUp,
                   saveCalled, sendFailed, saveThrew>>

\* the query of preload fails
PreloadFail ==
    /\ pc = "preload"
    /\ Len(uniqueNotices) > 0
    /\ Catch
    /\ UNCHANGED <<store, envVars, runVars, existingIds, uniqueNotices, noticesToSeed,
                   relevantNotices, email, cleanedUp, saveCalled, filtersApplied,
                   sendFailed, saveThrew>>

\* a run that saves whatever the mode
AfterSendAlwaysSave(testMode) == "save"

\* where run() goes after sendEmail returns
AfterSend(testMode) == IF ~testMode THEN "save" ELSE "cleanup"

\* the provider accepts the message
SendOk ==
    /\ pc = "send"
    /\ email' = EmailOf(relevantNotices, TEST_MODE)
    /\ pc' = AfterSend(TEST_MODE)
    /\ UNCHANGED <<store, envVars, runVars, existingIds, uniqueNotices, noticesToSeed,
                   relevantNotices, exitCode, cleanedUp, saveCalled, filtersApplied,
                   sendFailed, saveThrew>>

\* a sendEmail that logs the failure and returns
AfterSendFailureSwallowed == "save"

\* where run() goes when sendEmail throws
AfterSendFailure == "exited"

\* the provider returns an error or the call throws: sendEmail rethrows
SendFail ==
    /\ pc = "send"
    /\ sendFailed' = TRUE
    /\ pc' = AfterSendFailure
    /\ exitCode' = IF AfterSendFailure = "exited" THEN 1 ELSE exitCode
    /\ UNCHANGED <<store, envVars, runVars, existingIds, uniqueNotices, noticesToSeed,
                   relevantNotices, email, cleanedUp, saveCalled, filtersApplied,
                   saveThrew>>

\* saveSentNotices on the seed batch or on the sent batch; the server rejects
\* the documents at the positions of rejected
Save(rejected) ==
    /\ pc = "save"
    /\ LET batch == IF SEED_MODE THEN noticesToSeed ELSE relevantNotices
           res == saveSentNotices(batch, store, existingIds, rejected, now)
       IN /\ rejected \subseteq DOMAIN batch
          /\ store' = res.coll
          /\ existingIds' = res.existing
          /\ saveThrew' = res.threw
    /\ saveCalled' = TRUE
    /\ pc' = "cleanup"
    /\ UNCHANGED <<envVars, runVars, uniqueNotices, noticesToSeed, relevantNotices,
                   email, exitCode, cleanedUp, filtersApplied, sendFailed>>

\* the finally block, reached when the try block completes; the process then ends
Cleanup ==
    /\ pc = "cleanup"
    /\ cleanedUp' = TRUE
    /\ pc' = "exited"
    /\ exitCode' = 0
    /\ UNCHANGED <<store, envVars, runVars, existingIds, uniqueNotices, noticesToSeed,
                   relevantNotices, email, saveCalled, filtersApplied, sendFailed,
                   saveThrew>>

Next ==
    \/ \E t \in BOOLEAN, s \in BOOLEAN, elapsed \in 0..1 : Start(t, s, elapsed)
    \/ InitOk
    \/ InitFail
    \/ FetchOk
    \/ FetchFail
    \/ PreloadOk
    \/ PreloadFail
    \/ SendOk
    \/ SendFail
    \/ \E rejected \in SUBSET (1..(2 * MaxList)) : Save(rejected)
    \/ Cleanup

Spec == Init /\ [][Next]_vars

\* ------------------------------------------------------------------------
\* The merge on its own: any two bodies, one call of fetchNotices
\* ------------------------------------------------------------------------
InitFetch ==
    /\ Fresh
    /\ store = {}
    /\ storeAtStart = {}
    /\ now = Now0
    /\ pc = "fetch"
    /\ TEST_MODE = FALSE
    /\ strategies = ChainOf(FALSE)
    /\ cutoffDate = CutoffOf(Now0)
    /\ existingIds = {}
    /\ uniqueNotices = <<>>
    /\ relevantNotices = <<>>
    /\ news \in Bodies(Pool, MaxFetch)
    /\ exam \in Bodies(Pool, MaxFetch)

NextFetch == FetchOk

SpecFetch == InitFetch /\ [][NextFetch]_vars

\* ------------------------------------------------------------------------
\* The chain on its own: any chain of distinct strategies, one call of
\* applyFilters after preload
\* ------------------------------------------------------------------------
Chains ==
    {c \in SeqUpTo(StrategyNames, Cardinality(StrategyNames)) :
        \A i, j \in DOMAIN c : i # j => c[i] # c[j]}

InitFilter ==
    /\ Fresh
    /\ store \in SUBSET {Operation(NoticeA, Now0 - HourMs), Operation(NoticeE, Now0 - HourMs)}
    /\ storeAtStart = store
    /\ now \in {Now0, Now0 + HourMs}
    /\ pc = "preload"
    /\ TEST_MODE = FALSE
    /\ strategies \in Chains
    /\ cutoffDate = CutoffOf(now)
    /\ existingIds = {}
    /\ uniqueNotices \in SeqUpTo(Pool, MaxBatch)
    /\ relevantNotices = <<>>
    /\ news = Body(TRUE, <<>>)
    /\ exam = Body(TRUE, <<>>)

NextFilter == PreloadOk

SpecFilter == InitFilter /\ [][NextFilter]_vars

\* ------------------------------------------------------------------------
\* The digest on its own: any non-empty batch, one call of sendEmail
\* ------------------------------------------------------------------------
\* one notice per title
DigestNotice(title) == Notice([str |-> "9"], title, DateFresh, "download/notice.pdf")

InitDigest ==
    /\ Fresh
    /\ store = {}
    /\ storeAtStart = {}
    /\ now = Now0
    /\ pc = "send"
    /\ TEST_MODE \in BOOLEAN
    /\ strategies = ChainOf(TEST_MODE)
    /\ cutoffDate = IF ~TEST_MODE THEN CutoffOf(Now0) ELSE 0
    /\ existingIds = {}
    /\ relevantNotices \in
           {b \in SeqUpTo({DigestNotice(t) : t \in Titles}, MaxBatch) : Len(b) > 0}
    /\ uniqueNotices = relevantNotices
    /\ news = Body(TRUE, <<>>)
    /\ exam = Body(TRUE, <<>>)

NextDigest == SendOk \/ SendFail

SpecDigest == InitDigest /\ [][NextDigest]_vars

\* ------------------------------------------------------------------------
\* Properties
\* ------------------------------------------------------------------------
\* the orderings of a sequence
Perms(seq) == {[i \in DOMAIN seq |-> seq[f[i]]] : f \in Permutations(DOMAIN seq)}

NormalMode == ~TEST_MODE /\ ~SEED_MODE

\* the batch handed to saveSentNotices in this execution
SaveBatch == IF SEED_MODE THEN noticesToSeed ELSE relevantNotices

\* existingIds is still what preload left
AsPreloaded == pc \in {"send", "save"} \/ (pc = "cleanup" /\ ~saveCalled)

\* what preload of a later execution reads for the same fetched notices
LaterPreload == preload(uniqueNotices, store, {})

\* C1: a normal-mode execution that follows a completed normal-mode execution
\* over the same endpoint data delivers no email.
C1_SecondRunSendsNothing ==
    (NormalMode /\ prev.normalOk) => email = NoEmail

\* C2: in a normal-mode execution a failed send is followed by no call of
\* saveSentNotices, leaves the collection as it was at the start, ends the
\* process with status 1, and leaves every notice of the batch approved by the
\* persistence check after the preload of the next execution; every document a
\* normal-mode execution adds belongs to a notice of the email it delivered.
C2_FailedSendRecordsNothing ==
    /\ (NormalMode /\ sendFailed) =>
          /\ ~saveCalled
          /\ store = storeAtStart
          /\ pc = "exited"
          /\ exitCode = 1
          /\ \A i \in DOMAIN relevantNotices :
                PersistenceCheck(relevantNotices[i], LaterPreload)
    /\ AsPreloaded =>
          \A i \in DOMAIN prev.failedBatch :
              PersistenceCheck(prev.failedBatch[i], existingIds)
    /\ NormalMode =>
          \A doc \in store \ storeAtStart :
              /\ email # NoEmail
              /\ \E i \in DOMAIN email.cards :
                    /\ String(email.cards[i].id) = doc.noticeId
                    /\ email.cards[i].title = doc.title

\* C2 witness: the execution after a failed send has preloaded and is about to
\* send the batch that failed.
C2_Witness ==
    /\ NormalMode
    /\ pc = "send"
    /\ prev.failedBatch # <<>>
    /\ relevantNotices = prev.failedBatch

\* C3: when the process has ended, persistence.cleanup() has been executed.
C3_CleanupAlwaysRuns == pc = "exited" => cleanedUp

\* C4: a completed seed-mode execution has delivered no email, has not called
\* applyFilters, and has added to the collection one document for each fetched
\* id that was not in it at the start, and nothing else.
C4_SeedBaselinesEveryNewNotice ==
    (SEED_MODE /\ pc = "exited" /\ exitCode = 0) =>
        LET fetchedIds == {String(uniqueNotices[i].id) : i \in DOMAIN uniqueNotices}
            newIds == fetchedIds \ NoticeIds(storeAtStart)
        IN /\ email = NoEmail
           /\ ~filtersApplied
           /\ storeAtStart \subseteq store
           /\ NoticeIds(store \ storeAtStart) = newIds
           /\ Cardinality(store \ storeAtStart) = Cardinality(newIds)

\* C5: in a test-mode execution the chain is empty, every fetched notice is
\* relevant whatever its age and whether or not its id is stored, a non-empty
\* fetch leads to sendEmail with all the fetched notices, and the collection
\* stays as it was at the start.
C5_TestModeLeavesStore ==
    (TEST_MODE /\ ~SEED_MODE) =>
        /\ strategies = <<>>
        /\ store = storeAtStart
        /\ ~saveCalled
        /\ filtersApplied => relevantNotices = uniqueNotices
        /\ (filtersApplied /\ Len(uniqueNotices) > 0) =>
              \/ pc = "send"
              \/ sendFailed
              \/ email = EmailOf(SortByDate(fetchNotices(news, exam)), TRUE)

\* C5 witness: a test-mode execution has delivered an email with a notice that
\* is older than the age limit and whose id is stored.
C5_Witness ==
    /\ TEST_MODE
    /\ ~SEED_MODE
    /\ pc = "exited"
    /\ \E i \in DOMAIN email.cards :
          /\ String(email.cards[i].id) \in NoticeIds(store)
          /\ email.cards[i].date < now - NOTICE_AGE_LIMIT_HOURS * HourMs

\* C6: after saveSentNotices has returned, the persistence check rejects every
\* notice of the batch in the same execution, and after the preload of a later
\* execution that fetches the same notices.
C6_SaveMakesKnown ==
    saveCalled =>
        \A i \in DOMAIN SaveBatch :
            /\ ~PersistenceCheck(SaveBatch[i], existingIds)
            /\ ~PersistenceCheck(SaveBatch[i], LaterPreload)

\* C7: the merged list holds no two notices with the same String(id), holds only
\* notices of the two source lists, holds every id of the source lists, and for
\* each id holds its last occurrence in merge order.
C7_MergeDedup ==
    pc = "preload" =>
        LET all == DataOrEmpty(news) \o DataOrEmpty(exam)
            merged == fetchNotices(news, exam)
        IN /\ \A i, j \in DOMAIN merged :
                  i # j => String(merged[i].id) # String(merged[j].id)
           /\ \A i \in DOMAIN merged : merged[i] \in Range(all)
           /\ \A k \in DOMAIN all : \E i \in DOMAIN merged : merged[i].id = all[k].id
           /\ \A i \in DOMAIN merged :
                  \E k \in DOMAIN all :
                      /\ all[k] = merged[i]
                      /\ \A m \in DOMAIN all : m > k => all[m].id # merged[i].id
           /\ uniqueNotices \in Perms(merged)

\* C8: applyFilters returns, in input order, the notices every strategy of the
\* chain approves; the result is the same for every ordering of the chain; for
\* the chain Time + Persistence it is the notices dated at or after the cutoff
\* whose id is not in the membership set, critical or not.
C8_ChainIsStrictAnd ==
    filtersApplied =>
        LET Approved(n) ==
                \A i \in DOMAIN strategies :
                    StrategyCheck(strategies[i], n, cutoffDate, existingIds)
            RecentAndNew(n) ==
                n.date >= cutoffDate /\ String(n.id) \notin existingIds
        IN /\ relevantNotices = SelectSeq(uniqueNotices, Approved)
           /\ \A chain \in Perms(strategies) :
                  applyFilters(chain, uniqueNotices, cutoffDate, existingIds)
                      = relevantNotices
           /\ Range(strategies) = {"time", "persistence"} =>
                  relevantNotices = SelectSeq(uniqueNotices, RecentAndNew)

\* C8 witness: under the chain Persistence + Time a notice dated exactly at the
\* cutoff is kept, a non-critical notice is kept and another notice is dropped.
C8_Witness ==
    /\ filtersApplied
    /\ strategies = <<"persistence", "time">>
    /\ \E i \in DOMAIN relevantNotices : relevantNotices[i].date = cutoffDate
    /\ \E i \in DOMAIN relevantNotices : ~ContentCheck(relevantNotices[i])
    /\ Len(relevantNotices) < Len(uniqueNotices)

\* the classification the digest is specified by: an explicit critical
\* pattern, or the generic exam-form pattern without an excluded semester
Critical ==
    [title \in Titles |->
        CRITICAL_PATTERNS(title)
            \/ (GENERIC_EXAM_FORM(title) /\ ~EXCLUDE_SEMESTERS(title))]

\* C9: the subject and the banner of a delivered digest are the critical ones
\* exactly when some notice of the batch is critical; the titles of the
\* simulation classify as it expects (the VI Sem form critical, the holiday
\* notice and the I Sem form not); every ordering of the batch gives the same
\* subject and banner.
C9_DigestCriticality ==
    email # NoEmail =>
        LET someCritical ==
                \E i \in DOMAIN relevantNotices : Critical[relevantNotices[i].title]
        IN /\ email.subject[2] = (IF someCritical THEN SubjectCritical ELSE SubjectPlain)
           /\ email.banner = (IF someCritical THEN BannerCritical ELSE BannerPlain)
           /\ email.subject[1] = (IF TEST_MODE THEN "[TEST] " ELSE "")
           /\ Critical[TitleVISem] /\ ~Critical[TitleHoli] /\ ~Critical[TitleISem]
           /\ \A batch \in Perms(relevantNotices) :
                  /\ EmailOf(batch, TEST_MODE).subject = email.subject
                  /\ EmailOf(batch, TEST_MODE).banner = email.banner

\* C9 witness: a delivered digest whose first notice is critical and whose last
\* is not.
C9_Witness ==
    /\ email # NoEmail
    /\ Len(relevantNotices) > 1
    /\ ContentCheck(relevantNotices[1])
    /\ ~ContentCheck(relevantNotices[Len(relevantNotices)])
    /\ email.subject[2] = SubjectCritical

\* no two documents of the collection share a noticeId
UniqueNoticeIds == \A d1, d2 \in store : d1.noticeId = d2.noticeId => d1 = d2

\* C10: the collection never holds two documents with the same noticeId, and
\* every step keeps every document it holds, unchanged.
C10_AppendOnlyUnique == [](UniqueNoticeIds) /\ [][store \subseteq store']_vars

\* C10 witness: a batch with the same normalized id twice has been saved and the
\* collection holds that id.
C10_Witness ==
    /\ saveCalled
    /\ \E i, j \in DOMAIN SaveBatch :
          /\ i # j
          /\ String(SaveBatch[i].id) = String(SaveBatch[j].id)
          /\ String(SaveBatch[i].id) \in NoticeIds(store)

====
